---- MODULE Spec2Model ----
(***************************************************************************)
(* drawio-builder: batch export of .drawio files through the external      *)
(* drawio binary.  The model follows src/src/main.rs (main, run_command,   *)
(* assemble_layer_cli_flag) and src/src/drawio.rs (DrawioProcess::wait).   *)
(*                                                                         *)
(* Environment: the filesystem carries modification times taken from one   *)
(* non-decreasing clock; an input file's modification time is never in the *)
(* future; files are written, never deleted.  An external renderer process *)
(* may or may not write its output file and exits with status 0 or 1; its  *)
(* behaviour is observed in the step that waits on it.  The clock advances *)
(* and input files are saved between runs, not during one.  A process      *)
(* whose handle was dropped without a wait is not followed any further.    *)
(***************************************************************************)
EXTENDS Integers, Sequences, FiniteSets, TLC

\* ------------------------------------------------------------------ bounds
NumFiles   == 2   \* .drawio files in the input directory
MaxLayers  == 2   \* layer markers in one file: 0..MaxLayers
NumWorkers == 2   \* threads of the rayon pool
MaxTime    == 1   \* the clock runs 0..MaxTime
MaxRuns    == 2   \* runs of the program on the same directories
MaxLayerCount == 12  \* Incremental(n) is applied for n in 0..MaxLayerCount
MaxSteps   == 2   \* steps of a Custom plan given to assemble_layer_cli_flag
MaxPerStep == 2   \* layers in one step of such a plan
MaxStemLen == 2   \* characters in the file stem of an input file
MaxStepIdx == 11  \* export step indices 0..MaxStepIdx get an output name
MaxFlags   == 3   \* flags in the --build-args list given to draft mode

\* ------------------------------------------------------------- option type
None == <<>>
Some(x) == <<x>>
IsSome(o) == o # <<>>
Unwrap(o) == o[1]

Max(a, b) == IF a >= b THEN a ELSE b

\* ----------------------------------------------------------------- strings
\* A String is the sequence of its characters.
Digits == <<"0", "1", "2", "3", "4", "5", "6", "7", "8", "9">>

\* format!("{}", n) for an unsigned integer
RECURSIVE FormatNum(_)
FormatNum(n) ==
    IF n < 10 THEN <<Digits[n + 1]>>
    ELSE FormatNum(n \div 10) \o <<Digits[(n % 10) + 1]>>

\* [String]::join(sep)
RECURSIVE Join(_, _)
Join(strs, sep) ==
    IF Len(strs) = 0 THEN <<>>
    ELSE IF Len(strs) = 1 THEN strs[1]
    ELSE strs[1] \o sep \o Join(Tail(strs), sep)

\* --------------------------------------------------------- LayerConfig
Incremental(n) == [kind |-> "Incremental", layer_count |-> n, order |-> <<>>]
Custom(v) == [kind |-> "Custom", layer_count |-> 0, order |-> v]

\* main.rs 123-129: buf starts as "0"; for layer in 1..layer_count the loop
\* appends ",layer" to buf and pushes a copy.  Loop(result, buf, layer).
RECURSIVE IncrementalLoop(_, _, _, _)
IncrementalLoop(result, buf, layer, layer_count) ==
    IF layer >= layer_count THEN result
    ELSE LET buf2 == buf \o <<",">> \o FormatNum(layer)
         IN  IncrementalLoop(Append(result, buf2), buf2, layer + 1, layer_count)

IncrementalStepsOffByOne(layer_count) ==
    IncrementalLoop(<<<<"0">>>>, <<"0">>, 1, layer_count + 1)

IncrementalSteps(layer_count) ==
    IncrementalLoop(<<<<"0">>>>, <<"0">>, 1, layer_count)

RECURSIVE CustomStepsAccumulating(_)
CustomStepsAccumulating(v) ==
    IF Len(v) <= 1
    THEN [i \in 1..Len(v) |-> Join([j \in 1..Len(v[i]) |-> FormatNum(v[i][j])], <<",">>)]
    ELSE LET front == CustomStepsAccumulating(SubSeq(v, 1, Len(v) - 1))
             last == Join([j \in 1..Len(v[Len(v)]) |-> FormatNum(v[Len(v)][j])], <<",">>)
         IN  Append(front, Join(<<front[Len(front)], last>>, <<",">>))

\* main.rs 132: every inner list is formatted number by number and joined.
CustomSteps(v) ==
    [i \in 1..Len(v) |->
        Join([j \in 1..Len(v[i]) |-> FormatNum(v[i][j])], <<",">>)]

assemble_layer_cli_flag(config) ==
    IF config.kind = "Incremental"
    THEN IncrementalSteps(config.layer_count)
    ELSE CustomSteps(config.order)


\* ------------------------------------------------------------ the program
VARIABLES
    clock,          \* SystemTime::now()
    in_modified,    \* file.metadata().modified() of every input file
    out_modified,   \* metadata().modified() of every output path, None if absent
    markers,        \* layer_re matches in every input file's content
    file_to_config, \* main: per-file override, None if the name has no entry
    phase,          \* "idle", "running" (inside try_for_each), "finished"
    run,            \* runs of the program started so far
    fpc,            \* run_command's position for every file
    idx,            \* run_command: index of the export step being planned
    handles,        \* run_command: handles, the spawned and not yet waited jobs
    job,            \* per output path: what this run did for that export step
    result,         \* run_command's return value for every file
    full,           \* try_for_each: an Err has been seen, no new item starts
    progress_pos,   \* progress_bar position
    task_count,     \* progress_bar length
    first_err,      \* main: first_err
    exit_code,      \* exit status of the program, None while it runs
    fatal,          \* the error main returned before any file was processed
    log_file,       \* what this run wrote to drawio-builder-errors.log, if any
    log_exists,     \* drawio-builder-errors.log exists in the output directory
    touched,        \* an input file was modified since the last run started
    rerun,          \* this run follows a successful run with no input modified
    layer_config,   \* unit under test: argument of assemble_layer_cli_flag
    export_steps,   \* unit under test: value of assemble_layer_cli_flag
    applied,        \* unit under test: the function has been applied
    file_stems,     \* output naming: file_stem() of the two discovered files
    named,          \* output naming: the jobs named so far, with their file names
    draft,          \* draft mode: args.draft
    build_args,     \* draft mode: args.build_args, split at the spaces
    drawio_flags,   \* draft mode: main's drawio_flags
    draft_outcome   \* draft mode: "pending", "ok", "panic" or main's error

progVars == <<clock, in_modified, out_modified, markers, file_to_config, phase,
              run, fpc, idx, handles, job, result, full, progress_pos,
              task_count, first_err, exit_code, fatal, log_file, log_exists,
              touched, rerun>>
planVars == <<layer_config, export_steps, applied>>
pathVars == <<file_stems, named>>
draftVars == <<draft, build_args, drawio_flags, draft_outcome>>
unitVars == <<planVars, pathVars, draftVars>>
vars == <<progVars, unitVars>>

Files == 1..NumFiles

\* Per-file overrides a config file may carry (DrawioFileConfig.order).
OverridePlans == { <<>>, << <<1, 0>>, <<2, 5>> >> }

\* main.rs 338-341: a file without layer markers counts as one layer
LayerCount(f) == IF markers[f] = 0 THEN 1 ELSE markers[f]

\* main.rs 356-367: the override if the file name has one, else Incremental
BuildLayerConfig(f) ==
    IF IsSome(file_to_config[f])
    THEN Custom(Unwrap(file_to_config[f]))
    ELSE Incremental(LayerCount(f))

\* main.rs 144
ExportSteps(f) == assemble_layer_cli_flag(BuildLayerConfig(f))

\* main.rs 150: out_dir/<stem>-<idx>.png
OutputPath(f, i) == <<f, i>>

MaxPlanLen == Max(Max(MaxLayers, 1), 2)
Paths == {OutputPath(f, i) : f \in Files, i \in 0..(MaxPlanLen - 1)}

\* What the renderer prints for a job; distinct per job and per stream.
ProcStdout(p) == <<1>> \o p
ProcStderr(p) == <<2>> \o p

\* ------------------------------------------------------------ Result type
Ok == <<>>
Err(e) == <<e>>
IsErr(r) == r # <<>>

BlankJob == [st |-> "none", seen |-> None, old |-> None, exit |-> None,
             new |-> None, outcome |-> "", args |-> <<>>]

\* ------------------------------------------------------------- the command
\* main.rs 70, 276: the default --build-args, split at the blanks.
DrawioFlags == << <<"-x">>, <<"-f">>, <<"png">>, <<"-t">>, <<"-s">>, <<"5">> >>

\* The input files are in/f1.drawio, in/f2.drawio, ...
\* main.rs 140: file.file_stem()
FileStem(f) == <<"f">> \o FormatNum(f)

\* main.rs 141
FullFilePath(f) == <<"in/">> \o FileStem(f) \o <<".drawio">>

OutputNameNoSeparator(file_name, i) == file_name \o FormatNum(i) \o <<".png">>

\* main.rs 150: format!("{}-{}.png", file_name, idx)
OutputName(file_name, i) == file_name \o <<"-">> \o FormatNum(i) \o <<".png">>

\* main.rs 150: Path::new(out_dir).join(...)
OutputFile(f, i) == <<"out/">> \o OutputName(FileStem(f), i)

CommandArgsInputFirst(flags, output_path, step, full_file_path) ==
    flags \o << full_file_path, <<"-o">>, output_path, <<"--layers">>, step >>

\* main.rs 163-167: the arguments of the command, in the order given
CommandArgs(flags, output_path, step, full_file_path) ==
    flags \o << <<"-o">>, output_path, <<"--layers">>, step, full_file_path >>

\* ------------------------------------------------------------ DrawioError
\* main.rs 170-177 and 184-191
SpawnError(f, p) ==
    [message |-> "failed to spawn drawio process", input_path |-> f,
     output_path |-> p, stderr |-> <<>>, stdout |-> <<>>, exit_code |-> None]

\* main.rs 197-204
TerminationError(x) ==
    [message |-> "process termination error", input_path |-> x.input_path,
     output_path |-> x.output_path, stderr |-> <<>>, stdout |-> <<>>,
     exit_code |-> None]

ErrorTemplateWithoutOutput(x, output) ==
    [message |-> "generic error", input_path |-> x.input_path,
     output_path |-> x.output_path, stderr |-> <<>>, stdout |-> <<>>,
     exit_code |-> None]

\* main.rs 206-213
ErrorTemplate(x, output) ==
    [message |-> "generic error", input_path |-> x.input_path,
     output_path |-> x.output_path, stderr |-> output.stderr,
     stdout |-> output.stdout, exit_code |-> None]

\* ------------------------------------------------------- staleness checks
IsFreshStrict(out_modified_time, in_modified_time) ==
    out_modified_time > in_modified_time

IsFreshNever(out_modified_time, in_modified_time) == FALSE

\* main.rs 157: out_modified.ge(&in_modified)
IsFresh(out_modified_time, in_modified_time) ==
    out_modified_time >= in_modified_time

NotUpdatedStrict(old_modified_time, new_modified_time) ==
    old_modified_time > new_modified_time

\* main.rs 224: old_modified_time.ge(&new_modified_time)
NotUpdated(old_modified_time, new_modified_time) ==
    old_modified_time >= new_modified_time

\* main.rs 206-239, one iteration of the loop over handles after
\* wait_with_output returned output; meta is the output path's metadata now.
\* Ok lets the loop go on, Err(e) is returned from run_command.
Evaluate(x, output, meta) ==
    LET error_template == ErrorTemplate(x, output)
    IN  IF output.status # 0
        THEN Err([error_template EXCEPT !.message = "error exit code"])
        ELSE IF IsSome(x.old_modified_time)
        THEN IF NotUpdated(Unwrap(x.old_modified_time), Unwrap(meta))
             THEN Err([error_template EXCEPT
                          !.message = "output file was not updated"])
             ELSE Ok
        ELSE IF ~IsSome(meta)
             THEN Err([error_template EXCEPT
                          !.message = "output file was not created"])
             ELSE Ok

\* ------------------------------------------------------------------ main
RECURSIVE SumLayerCounts(_)
SumLayerCounts(n) == IF n = 0 THEN 0 ELSE SumLayerCounts(n - 1) + LayerCount(n)

\* main.rs 348
TaskCount == SumLayerCounts(NumFiles)

Active(f) == fpc[f] \in {"spawning", "waiting"}
Executed(j) == j.st \in {"spawned", "waited", "waitfail"}

ProgInit ==
    /\ clock = 0
    /\ in_modified = [f \in Files |-> 0]
    /\ out_modified = [p \in Paths |-> None]
    /\ markers \in [Files -> 0..MaxLayers]
    /\ file_to_config \in [Files -> {None} \cup {Some(o) : o \in OverridePlans}]
    /\ phase = "idle"
    /\ run = 0
    /\ fpc = [f \in Files |-> "todo"]
    /\ idx = [f \in Files |-> 0]
    /\ handles = [f \in Files |-> <<>>]
    /\ job = [p \in Paths |-> BlankJob]
    /\ result = [f \in Files |-> Ok]
    /\ full = FALSE
    /\ progress_pos = 0
    /\ task_count = 0
    /\ first_err = Ok
    /\ exit_code = None
    /\ fatal = None
    /\ log_file = None
    /\ log_exists = FALSE
    /\ touched = FALSE
    /\ rerun = FALSE

PlanIdle ==
    /\ layer_config = Incremental(1)
    /\ export_steps = <<>>
    /\ applied = FALSE

PathIdle ==
    /\ file_stems = <<FileStem(1), FileStem(2)>>
    /\ named = <<>>

DraftIdle ==
    /\ draft = FALSE
    /\ build_args = DrawioFlags
    /\ drawio_flags = DrawioFlags
    /\ draft_outcome = "pending"

UnitIdle == PlanIdle /\ PathIdle /\ DraftIdle

Init == ProgInit /\ UnitIdle

\* Time passes between two runs.
Tick ==
    /\ phase = "idle"
    /\ run > 0
    /\ clock < MaxTime
    /\ clock' = clock + 1
    /\ UNCHANGED <<in_modified, out_modified, markers, file_to_config, phase,
                   run, fpc, idx, handles, job, result, full, progress_pos,
                   task_count, first_err, exit_code, fatal, log_file, log_exists, touched, rerun>>
    /\ UNCHANGED unitVars

\* The user saves an input file between two runs.
TouchInput(f) ==
    /\ phase = "idle"
    /\ run > 0
    /\ in_modified' = [in_modified EXCEPT ![f] = clock]
    /\ touched' = TRUE
    /\ UNCHANGED <<clock, out_modified, markers, file_to_config, phase, run,
                   fpc, idx, handles, job, result, full, progress_pos,
                   task_count, first_err, exit_code, fatal, log_file, log_exists, rerun>>
    /\ UNCHANGED unitVars

\* main.rs 272-352: the program starts, discovers the files and sets up the
\* progress bar.
StartRun ==
    /\ phase = "idle"
    /\ run < MaxRuns
    /\ run' = run + 1
    /\ phase' = "running"
    /\ task_count' = TaskCount
    /\ progress_pos' = 0
    /\ fpc' = [f \in Files |-> "todo"]
    /\ idx' = [f \in Files |-> 0]
    /\ handles' = [f \in Files |-> <<>>]
    /\ job' = [p \in Paths |-> BlankJob]
    /\ result' = [f \in Files |-> Ok]
    /\ full' = FALSE
    /\ first_err' = Ok
    /\ exit_code' = None
    /\ fatal' = None
    /\ rerun' = (exit_code = Some(0) /\ ~touched)
    /\ touched' = FALSE
    /\ UNCHANGED <<clock, in_modified, out_modified, markers, file_to_config,
                   log_file, log_exists>>
    /\ UNCHANGED unitVars

\* The errors main returns before try_for_each: the config file cannot be
\* opened or parsed (main.rs 297), no drawio binary is found (315), the output
\* directory cannot be created (319), the input directory cannot be listed
\* (323-324), a .drawio file cannot be read (336).  <<kind, k>>: k files had
\* been pushed to drawio_files when the error occurred.
FatalErrors ==
    {<<"config", 0>>, <<"binary not found", 0>>, <<"output dir", 0>>,
     <<"list input dir", 0>>}
        \cup {<<"read file", k>> : k \in 0..(NumFiles - 1)}

PhaseAfterFatalIgnored == "running"

\* main.rs 297-336: `?` and whatever! return from main.
PhaseAfterFatal == "finished"

\* main.rs 272-346: the program starts and fails before it processes a file.
StartFail(e) ==
    /\ phase = "idle"
    /\ run < MaxRuns
    /\ run' = run + 1
    /\ phase' = PhaseAfterFatal
    /\ fatal' = Some(e)
    /\ exit_code' = Some(1)
    /\ task_count' = 0
    /\ progress_pos' = 0
    /\ fpc' = [f \in Files |-> "todo"]
    /\ idx' = [f \in Files |-> 0]
    /\ handles' = [f \in Files |-> <<>>]
    /\ job' = [p \in Paths |-> BlankJob]
    /\ result' = [f \in Files |-> Ok]
    /\ full' = FALSE
    /\ first_err' = Ok
    /\ rerun' = FALSE
    /\ touched' = FALSE
    /\ UNCHANGED <<clock, in_modified, out_modified, markers, file_to_config,
                   log_file, log_exists>>
    /\ UNCHANGED unitVars

\* main.rs 353: a worker of the pool takes the next file, unless an Err has
\* already been seen (try_for_each short-circuits).
BeginFile(f) ==
    /\ phase = "running"
    /\ fpc[f] = "todo"
    /\ ~full
    /\ Cardinality({g \in Files : Active(g)}) < NumWorkers
    /\ fpc' = [fpc EXCEPT ![f] = "spawning"]
    /\ idx' = [idx EXCEPT ![f] = 0]
    /\ handles' = [handles EXCEPT ![f] = <<>>]
    /\ UNCHANGED <<clock, in_modified, out_modified, markers, file_to_config,
                   phase, run, job, result, full, progress_pos, task_count,
                   first_err, exit_code, fatal, log_file, log_exists, touched, rerun>>
    /\ UNCHANGED unitVars

\* main.rs 153-161: the decision about one export step from the output's
\* metadata (None if the path does not exist) and the input's modification
\* time: skip it, or build it and remember the output's old modification time.
PlanStep(meta, in_modified_time) ==
    IF IsSome(meta) /\ IsFresh(Unwrap(meta), in_modified_time)
    THEN [skip |-> TRUE, old_modified_time |-> None]
    ELSE [skip |-> FALSE, old_modified_time |-> meta]

RunCommandVarsUnchanged ==
    UNCHANGED <<clock, in_modified, markers, file_to_config, phase, run,
                task_count, first_err, exit_code, fatal, log_file, log_exists, touched, rerun>>

\* main.rs 146-161: the output of step idx is up to date, continue.
PlanSkip(f) ==
    LET i == idx[f]
        p == OutputPath(f, i)
        plan == PlanStep(out_modified[p], in_modified[f])
    IN  /\ phase = "running"
        /\ fpc[f] = "spawning"
        /\ i < Len(ExportSteps(f))
        /\ plan.skip
        /\ job' = [job EXCEPT ![p] = [BlankJob EXCEPT !.st = "fresh",
                                                      !.seen = out_modified[p]]]
        /\ idx' = [idx EXCEPT ![f] = i + 1]
        /\ UNCHANGED <<out_modified, fpc, handles, result, full, progress_pos>>
        /\ RunCommandVarsUnchanged
        /\ UNCHANGED unitVars

\* main.rs 146-192: step idx is stale and its process is spawned.
Spawn(f) ==
    LET i == idx[f]
        p == OutputPath(f, i)
        plan == PlanStep(out_modified[p], in_modified[f])
        x == [output_path |-> p, input_path |-> f,
              old_modified_time |-> plan.old_modified_time]
    IN  /\ phase = "running"
        /\ fpc[f] = "spawning"
        /\ i < Len(ExportSteps(f))
        /\ ~plan.skip
        /\ handles' = [handles EXCEPT ![f] = Append(@, x)]
        /\ job' = [job EXCEPT ![p] = [BlankJob EXCEPT
                                         !.st = "spawned",
                                         !.seen = out_modified[p],
                                         !.old = plan.old_modified_time,
                                         !.args = CommandArgs(DrawioFlags,
                                                     OutputFile(f, i),
                                                     ExportSteps(f)[i + 1],
                                                     FullFilePath(f))]]
        /\ idx' = [idx EXCEPT ![f] = i + 1]
        /\ UNCHANGED <<out_modified, fpc, result, full, progress_pos>>
        /\ RunCommandVarsUnchanged
        /\ UNCHANGED unitVars

\* main.rs 170-177, 184-191: current_dir() or spawn() fails; `?` returns the
\* error from run_command, the handles pushed so far are dropped unwaited.
SpawnFail(f) ==
    LET i == idx[f]
        p == OutputPath(f, i)
        plan == PlanStep(out_modified[p], in_modified[f])
    IN  /\ phase = "running"
        /\ fpc[f] = "spawning"
        /\ i < Len(ExportSteps(f))
        /\ ~plan.skip
        /\ job' = [job EXCEPT ![p] = [BlankJob EXCEPT
                                         !.st = "spawnfail",
                                         !.seen = out_modified[p],
                                         !.old = plan.old_modified_time,
                                         !.args = CommandArgs(DrawioFlags,
                                                     OutputFile(f, i),
                                                     ExportSteps(f)[i + 1],
                                                     FullFilePath(f)),
                                         !.outcome = SpawnError(f, p).message]]
        /\ result' = [result EXCEPT ![f] = Err(SpawnError(f, p))]
        /\ fpc' = [fpc EXCEPT ![f] = "err"]
        /\ handles' = [handles EXCEPT ![f] = <<>>]
        /\ full' = TRUE
        /\ UNCHANGED <<out_modified, idx, progress_pos>>
        /\ RunCommandVarsUnchanged
        /\ UNCHANGED unitVars

\* main.rs 146, 195: all steps are planned, the loop over handles starts.
EndSpawnLoop(f) ==
    /\ phase = "running"
    /\ fpc[f] = "spawning"
    /\ idx[f] >= Len(ExportSteps(f))
    /\ fpc' = [fpc EXCEPT ![f] = "waiting"]
    /\ UNCHANGED <<out_modified, idx, handles, job, result, full, progress_pos>>
    /\ RunCommandVarsUnchanged
    /\ UNCHANGED unitVars

\* main.rs 197-204: wait_with_output fails; `?` returns the error, the
\* remaining handles are dropped unwaited.
WaitFail(f) ==
    /\ phase = "running"
    /\ fpc[f] = "waiting"
    /\ handles[f] # <<>>
    /\ LET x == Head(handles[f])
           p == x.output_path
       IN  /\ job' = [job EXCEPT ![p].st = "waitfail",
                                 ![p].outcome = TerminationError(x).message]
           /\ result' = [result EXCEPT ![f] = Err(TerminationError(x))]
    /\ fpc' = [fpc EXCEPT ![f] = "err"]
    /\ handles' = [handles EXCEPT ![f] = <<>>]
    /\ full' = TRUE
    /\ UNCHANGED <<out_modified, idx, progress_pos>>
    /\ RunCommandVarsUnchanged
    /\ UNCHANGED unitVars

\* main.rs 195-238: the process of the next handle has exited with `status`,
\* having written its output file or not; its outcome is evaluated.  On Err
\* run_command returns and the remaining handles are dropped unwaited.
Wait(f, status, wrote) ==
    /\ phase = "running"
    /\ fpc[f] = "waiting"
    /\ handles[f] # <<>>
    /\ LET x == Head(handles[f])
           p == x.output_path
           meta == IF wrote THEN Some(clock) ELSE out_modified[p]
           output == [status |-> status, stdout |-> ProcStdout(p),
                      stderr |-> ProcStderr(p)]
           r == Evaluate(x, output, meta)
       IN  /\ out_modified' = [out_modified EXCEPT ![p] = meta]
           /\ progress_pos' = progress_pos + 1
           /\ job' = [job EXCEPT ![p].st = "waited",
                                 ![p].exit = Some(status),
                                 ![p].new = meta,
                                 ![p].outcome =
                                     IF IsErr(r) THEN r[1].message ELSE "ok"]
           /\ IF IsErr(r)
              THEN /\ result' = [result EXCEPT ![f] = r]
                   /\ fpc' = [fpc EXCEPT ![f] = "err"]
                   /\ handles' = [handles EXCEPT ![f] = <<>>]
                   /\ full' = TRUE
              ELSE /\ handles' = [handles EXCEPT ![f] = Tail(@)]
                   /\ UNCHANGED <<result, fpc, full>>
    /\ UNCHANGED idx
    /\ RunCommandVarsUnchanged
    /\ UNCHANGED unitVars

\* main.rs 239: every handle was waited on, run_command returns Ok(()).
EndFile(f) ==
    /\ phase = "running"
    /\ fpc[f] = "waiting"
    /\ handles[f] = <<>>
    /\ fpc' = [fpc EXCEPT ![f] = "ok"]
    /\ result' = [result EXCEPT ![f] = Ok]
    /\ UNCHANGED <<out_modified, idx, handles, job, full, progress_pos>>
    /\ RunCommandVarsUnchanged
    /\ UNCHANGED unitVars

\* The fields of two different failures put together.
FirstErrMixed ==
    LET failed == {f \in Files : IsErr(result[f])}
        lo == CHOOSE f \in failed : \A g \in failed : f <= g
        hi == CHOOSE f \in failed : \A g \in failed : f >= g
    IN  IF failed = {} THEN Ok
        ELSE Err([result[lo][1] EXCEPT !.stdout = result[hi][1].stdout])

\* try_for_each (main.rs 353) returns the Err of the first file, in the order
\* of drawio_files, whose run_command returned one.
FirstErr ==
    LET failed == {f \in Files : IsErr(result[f])}
    IN  IF failed = {} THEN Ok
        ELSE result[CHOOSE f \in failed : \A g \in failed : f <= g]

LogOutcomes ==
    {"create failed", "header failed", "stdout failed", "stderr failed", "written"}

WriteLogSwapped(e, outcome) ==
    IF outcome = "create failed" THEN None
    ELSE IF outcome = "header failed" THEN Some(<<>>)
    ELSE IF outcome = "stdout failed" THEN Some(<<e.output_path>>)
    ELSE IF outcome = "stderr failed" THEN Some(<<e.output_path, e.stderr>>)
    ELSE Some(<<e.output_path, e.stderr, e.stdout>>)

\* main.rs 373-377: File::create truncates the log, then the header with the
\* output path, stdout and stderr are written.
WriteLog(e, outcome) ==
    IF outcome = "create failed" THEN None
    ELSE IF outcome = "header failed" THEN Some(<<>>)
    ELSE IF outcome = "stdout failed" THEN Some(<<e.output_path>>)
    ELSE IF outcome = "stderr failed" THEN Some(<<e.output_path, e.stdout>>)
    ELSE Some(<<e.output_path, e.stdout, e.stderr>>)

\* main.rs 370-382: every worker is done; the result is reported.
\* (progress_bar.finish_with_message is not part of progress_pos, which counts
\* the calls of progress.inc.)
FinishRun ==
    /\ phase = "running"
    /\ \A f \in Files : ~Active(f) /\ (fpc[f] = "todo" => full)
    /\ phase' = "finished"
    /\ first_err' = FirstErr
    /\ IF IsErr(FirstErr)
       THEN /\ \E outcome \in LogOutcomes :
                 /\ log_file' = WriteLog(FirstErr[1], outcome)
                 /\ log_exists' = (log_exists \/ outcome # "create failed")
            /\ exit_code' = Some(1)
       ELSE /\ exit_code' = Some(0)
            /\ UNCHANGED <<log_file, log_exists>>
    /\ UNCHANGED <<clock, in_modified, out_modified, markers, file_to_config,
                   run, fpc, idx, handles, job, result, full, progress_pos,
                   task_count, fatal, touched, rerun>>
    /\ UNCHANGED unitVars

\* The program has exited; what is left is the filesystem and the exit status.
Exit ==
    /\ phase = "finished"
    /\ run < MaxRuns
    /\ phase' = "idle"
    /\ fpc' = [f \in Files |-> "todo"]
    /\ idx' = [f \in Files |-> 0]
    /\ handles' = [f \in Files |-> <<>>]
    /\ job' = [p \in Paths |-> BlankJob]
    /\ result' = [f \in Files |-> Ok]
    /\ full' = FALSE
    /\ progress_pos' = 0
    /\ task_count' = 0
    /\ first_err' = Ok
    /\ touched' = FALSE
    /\ rerun' = FALSE
    /\ log_file' = None
    /\ fatal' = None
    /\ UNCHANGED <<clock, in_modified, out_modified, markers, file_to_config,
                   run, exit_code, log_exists>>
    /\ UNCHANGED unitVars

Next ==
    \/ Tick
    \/ \E f \in Files : TouchInput(f)
    \/ StartRun
    \/ \E e \in FatalErrors : StartFail(e)
    \/ \E f \in Files : BeginFile(f)
    \/ \E f \in Files : PlanSkip(f)
    \/ \E f \in Files : Spawn(f)
    \/ \E f \in Files : SpawnFail(f)
    \/ \E f \in Files : EndSpawnLoop(f)
    \/ \E f \in Files : WaitFail(f)
    \/ \E f \in Files, status \in {0, 1}, wrote \in BOOLEAN : Wait(f, status, wrote)
    \/ \E f \in Files : EndFile(f)
    \/ FinishRun
    \/ Exit

Spec == Init /\ [][Next]_vars

\* ------------------------------------------- assemble_layer_cli_flag alone
\* Layer indices (u8) used in Custom plans.
LayerIds == {0, 1, 2, 5}
\* Indices with one, two and three decimal digits, used in one-step plans.
WideLayerIds == {9, 10, 99, 100, 255}

SeqsUpTo(S, n) == UNION {[1..k -> S] : k \in 0..n}

LayerConfigs ==
    {Incremental(n) : n \in 0..MaxLayerCount}
        \cup {Custom(v) : v \in SeqsUpTo(SeqsUpTo(LayerIds, MaxPerStep), MaxSteps)}
        \cup {Custom(<<s>>) : s \in SeqsUpTo(WideLayerIds, MaxPerStep)}

UnitInit ==
    /\ markers = [f \in Files |-> 0]
    /\ file_to_config = [f \in Files |-> None]
    /\ ProgInit
    /\ layer_config \in LayerConfigs
    /\ export_steps = <<>>
    /\ applied = FALSE
    /\ PathIdle
    /\ DraftIdle

\* main.rs 119-136
Apply ==
    /\ ~applied
    /\ export_steps' = assemble_layer_cli_flag(layer_config)
    /\ applied' = TRUE
    /\ UNCHANGED layer_config
    /\ UNCHANGED <<progVars, pathVars, draftVars>>

UnitNext == Apply

SpecUnit == UnitInit /\ [][UnitNext]_vars

\* ------------------------------------------------------------ output names
\* The characters a file stem is made of: a letter, the separator the output
\* name uses, and a digit.
StemChars == {"a", "-", "1"}

Stems == SeqsUpTo(StemChars, MaxStemLen) \ {<<>>}

\* main.rs 323-343: the files come from one read_dir of the input directory
\* and all have the extension drawio, so their stems differ.
PathInit ==
    /\ markers = [f \in Files |-> 0]
    /\ file_to_config = [f \in Files |-> None]
    /\ ProgInit
    /\ PlanIdle
    /\ DraftIdle
    /\ file_stems \in {p \in Stems \X Stems : p[1] # p[2]}
    /\ named = <<>>

\* main.rs 140, 146, 150: the output file name of step i of file k.
NamePath(k, i) ==
    /\ Len(named) < 2
    /\ named' = Append(named, [file |-> k, idx |-> i,
                               name |-> OutputName(file_stems[k], i)])
    /\ UNCHANGED file_stems
    /\ UNCHANGED <<progVars, planVars, draftVars>>

PathNext == \E k \in 1..2 : \E i \in 0..MaxStepIdx : NamePath(k, i)

SpecPaths == PathInit /\ [][PathNext]_vars

\* --------------------------------------------------------------- draft mode
FlagTokens == {<<"-s">>, <<"--scale">>, <<"-x">>, <<"5">>}

\* main.rs 281-286: the index (from 0) of the first -s or --scale.
ScaleFlagIdx(flags) ==
    LET hits == {i \in 0..(Len(flags) - 1) :
                    flags[i + 1] = <<"-s">> \/ flags[i + 1] = <<"--scale">>}
    IN  IF hits = {} THEN None
        ELSE Some(CHOOSE i \in hits : \A j \in hits : i <= j)

\* main.rs 279-293. The guard of line 288 compares len with idx + 1, and
\* line 291 indexes drawio_flags at idx + 1, which panics when idx + 1 is
\* not below len.
DraftMode(is_draft, flags) ==
    IF ~is_draft THEN [outcome |-> "ok", flags |-> flags]
    ELSE LET scale_flag_idx == ScaleFlagIdx(flags)
         IN  IF ~IsSome(scale_flag_idx) THEN [outcome |-> "ok", flags |-> flags]
             ELSE LET i == Unwrap(scale_flag_idx)
                  IN  IF Len(flags) < i + 1
                      THEN [outcome |-> "Scale flag does not have argument",
                            flags |-> flags]
                      ELSE IF ~(i + 1 < Len(flags))
                      THEN [outcome |-> "panic", flags |-> flags]
                      ELSE [outcome |-> "ok",
                            flags |-> [flags EXCEPT ![i + 2] = <<"1">>]]

DraftInit ==
    /\ markers = [f \in Files |-> 0]
    /\ file_to_config = [f \in Files |-> None]
    /\ ProgInit
    /\ PlanIdle
    /\ PathIdle
    /\ draft \in BOOLEAN
    /\ build_args \in SeqsUpTo(FlagTokens, MaxFlags)
    /\ drawio_flags = build_args
    /\ draft_outcome = "pending"

ApplyDraft ==
    /\ draft_outcome = "pending"
    /\ LET r == DraftMode(draft, drawio_flags)
       IN  /\ draft_outcome' = r.outcome
           /\ drawio_flags' = r.flags
    /\ UNCHANGED <<draft, build_args>>
    /\ UNCHANGED <<progVars, planVars, pathVars>>

DraftNext == ApplyDraft

SpecDraft == DraftInit /\ [][DraftNext]_vars

\* =================================================================== claims
JobFile(p) == p[1]

\* Reading a selector back: the numbers between the commas.
DigitValue(c) == CHOOSE d \in 0..9 : Digits[d + 1] = c

RECURSIVE ParseNum(_)
ParseNum(str) ==
    IF Len(str) = 0 THEN 0
    ELSE 10 * ParseNum(SubSeq(str, 1, Len(str) - 1)) + DigitValue(str[Len(str)])

\* ParseFrom(str, i, cur, acc): str from position i on, cur the characters
\* of the current number, acc the numbers read so far.
RECURSIVE ParseFrom(_, _, _, _)
ParseFrom(str, i, cur, acc) ==
    IF i > Len(str) THEN Append(acc, ParseNum(cur))
    ELSE IF str[i] = "," THEN ParseFrom(str, i + 1, <<>>, Append(acc, ParseNum(cur)))
    ELSE ParseFrom(str, i + 1, Append(cur, str[i]), acc)

ParseSelector(str) == IF str = <<>> THEN <<>> ELSE ParseFrom(str, 1, <<>>, <<>>)

\* No empty number and no leading zero in a selector.
RECURSIVE WellFormedFrom(_, _, _)
WellFormedFrom(str, i, curLen) ==
    IF i > Len(str) THEN curLen > 0
    ELSE IF str[i] = "," THEN curLen > 0 /\ WellFormedFrom(str, i + 1, 0)
    ELSE /\ \E d \in 1..10 : Digits[d] = str[i]
         /\ (curLen = 1 => str[i - 1] # "0")
         /\ WellFormedFrom(str, i + 1, curLen + 1)

WellFormed(str) == str = <<>> \/ WellFormedFrom(str, 1, 0)

Steps(f) == 0..(Len(ExportSteps(f)) - 1)
OutputFresh(f, i) ==
    /\ IsSome(out_modified[OutputPath(f, i)])
    /\ Unwrap(out_modified[OutputPath(f, i)]) >= in_modified[f]

\* C1: a job whose process exited with status zero succeeds only if the
\* output, when it existed at planning time, now has a modification time
\* strictly greater than the recorded prior one (otherwise the outcome is
\* "output file was not updated"), and, when it did not exist at planning
\* time, exists now (otherwise "output file was not created"); the failure is
\* what run_command returns for the file.
C1_ZeroExitNeedsFilesystemEvidence ==
    \A p \in Paths :
        (job[p].st = "waited" /\ job[p].exit = Some(0)) =>
            /\ IsSome(job[p].seen) =>
                 /\ job[p].old = job[p].seen
                 /\ job[p].outcome = "ok" =>
                        Unwrap(job[p].new) > Unwrap(job[p].old)
                 /\ ~(Unwrap(job[p].new) > Unwrap(job[p].old)) =>
                        job[p].outcome = "output file was not updated"
            /\ ~IsSome(job[p].seen) =>
                 /\ job[p].outcome = "ok" => IsSome(job[p].new)
                 /\ ~IsSome(job[p].new) =>
                        job[p].outcome = "output file was not created"
            /\ job[p].outcome # "ok" =>
                 /\ IsErr(result[JobFile(p)])
                 /\ result[JobFile(p)][1].message = job[p].outcome
                 /\ result[JobFile(p)][1].output_path = p

\* A process exited zero without touching an output that already existed.
C1_Witness ==
    \E p \in Paths :
        /\ job[p].st = "waited"
        /\ job[p].exit = Some(0)
        /\ IsSome(job[p].seen)
        /\ job[p].new = job[p].seen
        /\ job[p].outcome = "output file was not updated"

\* C2: a job whose process exited with a non-zero status fails with "error
\* exit code" and the error carries the stdout and stderr of that process,
\* whether the output file is absent, unchanged or freshly written.
C2_NonZeroExitCarriesOutput ==
    \A p \in Paths :
        (job[p].st = "waited" /\ job[p].exit = Some(1)) =>
            /\ job[p].outcome = "error exit code"
            /\ IsErr(result[JobFile(p)])
            /\ result[JobFile(p)][1].message = "error exit code"
            /\ result[JobFile(p)][1].output_path = p
            /\ result[JobFile(p)][1].input_path = JobFile(p)
            /\ result[JobFile(p)][1].stdout = ProcStdout(p)
            /\ result[JobFile(p)][1].stderr = ProcStderr(p)

\* A process exited non-zero although it had freshly rewritten its output.
C2_Witness ==
    \E p \in Paths :
        /\ job[p].st = "waited"
        /\ job[p].exit = Some(1)
        /\ IsSome(job[p].old)
        /\ Unwrap(job[p].new) > Unwrap(job[p].old)
        /\ result[JobFile(p)][1].stdout = ProcStdout(p)

C4_EveryStaleStepSpawned ==
    (phase = "finished" /\ ~IsSome(fatal)) =>
        \A f \in Files : \A i \in Steps(f) :
            ~OutputFresh(f, i) => job[OutputPath(f, i)].st # "none"

\* C5 (as claimed): when the run has ended every spawned process has been
\* waited on.
C5_EverySpawnedWaited ==
    (phase = "finished" /\ ~IsSome(fatal)) => \A p \in Paths : job[p].st # "spawned"

RECURSIVE HeldHandles(_)
HeldHandles(n) == IF n = 0 THEN 0 ELSE HeldHandles(n - 1) + Len(handles[n])

\* C6 (as claimed): the processes spawned and not yet waited on never
\* outnumber the workers of the pool.
C6_BoundedParallelism == HeldHandles(NumFiles) <= NumWorkers

\* C7: a run that follows a run ending in success, with no input file
\* modified in between, spawns no process and ends in success.
C7_RerunDoesNothing ==
    rerun =>
        /\ \A p \in Paths : job[p].st \in {"none", "fresh"}
        /\ progress_pos = 0
        /\ phase = "finished" => exit_code = Some(0)

\* The second run has ended after skipping at least two steps.
C7_Witness ==
    /\ rerun
    /\ phase = "finished"
    /\ Cardinality({p \in Paths : job[p].st = "fresh"}) >= 2

\* C8: for n >= 1, Incremental(n) gives n selectors, the k-th (k = 0..n-1)
\* being the indices 0,1,...,k joined by commas; Incremental(1) is ["0"] and
\* Incremental(3) is ["0", "0,1", "0,1,2"].
C8_IncrementalSelectors ==
    (applied /\ layer_config.kind = "Incremental" /\ layer_config.layer_count >= 1) =>
        LET n == layer_config.layer_count
        IN  /\ Len(export_steps) = n
            /\ \A k \in 0..(n - 1) :
                  /\ WellFormed(export_steps[k + 1])
                  /\ ParseSelector(export_steps[k + 1]) = [j \in 1..(k + 1) |-> j - 1]
            /\ n = 1 => export_steps = << <<"0">> >>
            /\ n = 3 => export_steps =
                   << <<"0">>, <<"0", ",", "1">>, <<"0", ",", "1", ",", "2">> >>

C8_Witness ==
    /\ applied
    /\ layer_config = Incremental(MaxLayerCount)
    /\ Len(export_steps) = MaxLayerCount
    /\ export_steps[3] = <<"0", ",", "1", ",", "2">>

\* C9: Custom(v) gives Len(v) selectors, the i-th being the indices of v[i]
\* in their order joined by commas, nothing accumulated, reordered, dropped
\* or checked; an empty v gives no selector.
C9_CustomSelectors ==
    (applied /\ layer_config.kind = "Custom") =>
        LET v == layer_config.order
        IN  /\ Len(export_steps) = Len(v)
            /\ \A i \in 1..Len(v) :
                  /\ WellFormed(export_steps[i])
                  /\ ParseSelector(export_steps[i]) = v[i]
            /\ v = << <<1, 0>>, <<2, 5>> >> =>
                   export_steps = << <<"1", ",", "0">>, <<"2", ",", "5">> >>
            /\ v = <<>> => export_steps = <<>>

C9_Witness ==
    /\ applied
    /\ layer_config = Custom(<< <<1, 0>>, <<2, 5>> >>)
    /\ export_steps = << <<"1", ",", "0">>, <<"2", ",", "5">> >>

\* C10 (as claimed): in the first run, on an empty output directory and
\* without overrides, the number of jobs executed is the sum of the files'
\* layer counts, a file without markers counting as one layer.
C10_InitialRunJobCount ==
    (phase = "finished" /\ run = 1 /\ ~IsSome(fatal)
         /\ \A f \in Files : ~IsSome(file_to_config[f])) =>
        Cardinality({p \in Paths : Executed(job[p])}) = SumLayerCounts(NumFiles)

Emitted(j) == j.st \notin {"none", "fresh"}

\* The layer selector a job passed after --layers.
SelectorOf(j) == j.args[Len(DrawioFlags) + 4]

RECURSIVE SumCountsOf(_, _)
SumCountsOf(mk, n) ==
    IF n = 0 THEN 0
    ELSE SumCountsOf(mk, n - 1) + (IF mk[n] = 0 THEN 1 ELSE mk[n])

\* C11 (as claimed): a file with an override gets exactly the override's
\* steps, in order, and its detected layer count affects nothing computed
\* for it (the progress total is the same for every layer count the file
\* could have); a file without override gets the Incremental plan of its
\* layer count.
C11_OverrideHonoredVerbatim ==
    (phase # "idle" /\ ~IsSome(fatal)) =>
        \A f \in Files :
            IF IsSome(file_to_config[f])
            THEN LET v == Unwrap(file_to_config[f])
                 IN  /\ \A i \in 0..(MaxPlanLen - 1) :
                            Emitted(job[OutputPath(f, i)]) =>
                                /\ i < Len(v)
                                /\ ParseSelector(SelectorOf(job[OutputPath(f, i)]))
                                       = v[i + 1]
                     /\ \A m \in 0..MaxLayers :
                            task_count = SumCountsOf([markers EXCEPT ![f] = m], NumFiles)
            ELSE \A i \in 0..(MaxPlanLen - 1) :
                     Emitted(job[OutputPath(f, i)]) =>
                         /\ i < LayerCount(f)
                         /\ ParseSelector(SelectorOf(job[OutputPath(f, i)]))
                                = [j \in 1..(i + 1) |-> j - 1]

\* C16: the arguments of every job are the global flags in their order, -o,
\* the output path, --layers, the step's selector, and the input path last.
C16_ArgumentOrder ==
    \A f \in Files : \A i \in 0..(MaxPlanLen - 1) :
        LET j == job[OutputPath(f, i)]
            n == Len(DrawioFlags)
        IN  Emitted(j) =>
                /\ Len(j.args) = n + 5
                /\ \A k \in 1..n : j.args[k] = DrawioFlags[k]
                /\ j.args[n + 1] = <<"-o">>
                /\ j.args[n + 2] = <<"out/">> \o FileStem(f) \o <<"-">>
                                       \o FormatNum(i) \o <<".png">>
                /\ j.args[n + 3] = <<"--layers">>
                /\ ParseSelector(j.args[n + 4]) =
                       (IF IsSome(file_to_config[f])
                        THEN Unwrap(file_to_config[f])[i + 1]
                        ELSE [k \in 1..(i + 1) |-> k - 1])
                /\ j.args[n + 5] = <<"in/">> \o FileStem(f) \o <<".drawio">>

\* The second step of an overridden file was given the selector 2,5.
C16_Witness ==
    \E f \in Files :
        /\ job[OutputPath(f, 1)].st = "waited"
        /\ job[OutputPath(f, 1)].args =
               DrawioFlags \o << <<"-o">>, <<"out/", "f">> \o FormatNum(f) \o <<"-", "1", ".png">>,
                                <<"--layers">>, <<"2", ",", "5">>,
                                <<"in/", "f">> \o FormatNum(f) \o <<".drawio">> >>

Failed(j) ==
    \/ j.st \in {"spawnfail", "waitfail"}
    \/ j.st = "waited" /\ j.outcome # "ok"

\* What was captured from the process of a job: its streams if it was waited
\* on, nothing if it was never obtained.
CapturedStdout(p) == IF job[p].st = "waited" THEN ProcStdout(p) ELSE <<>>
CapturedStderr(p) == IF job[p].st = "waited" THEN ProcStderr(p) ELSE <<>>

IsPrefix(a, b) == Len(a) <= Len(b) /\ \A k \in 1..Len(a) : a[k] = b[k]

\* C12: a run with a failed job ends with a non-zero exit status, having
\* written to the log the output path, the stdout and the stderr of one
\* failing job, in this order (as far as the log could be created and
\* written); a run without a failed job ends with exit status zero.
C12_FailureLoggedAndReported ==
    (phase = "finished" /\ ~IsSome(fatal)) =>
        IF \E p \in Paths : Failed(job[p])
        THEN /\ exit_code = Some(1)
             /\ \E p \in Paths :
                    /\ Failed(job[p])
                    /\ \/ ~IsSome(log_file)
                       \/ /\ log_exists
                          /\ IsPrefix(Unwrap(log_file),
                                      <<p, CapturedStdout(p), CapturedStderr(p)>>)
        ELSE /\ exit_code = Some(0)
             /\ ~IsSome(log_file)

\* The log was written completely for a job that exited non-zero.
C12_Witness ==
    /\ phase = "finished"
    /\ exit_code = Some(1)
    /\ \E p \in Paths :
           /\ job[p].st = "waited"
           /\ job[p].exit = Some(1)
           /\ log_file = Some(<<p, ProcStdout(p), ProcStderr(p)>>)

\* C13: the batch result is a failure exactly if some job failed, and the
\* failure kept is, field by field, the failure of one job of this run.
C13_OneRealFailureKept ==
    (phase = "finished" /\ ~IsSome(fatal)) =>
        /\ IsErr(first_err) <=> \E p \in Paths : Failed(job[p])
        /\ Len(first_err) <= 1
        /\ IsErr(first_err) =>
               \E p \in Paths :
                   /\ Failed(job[p])
                   /\ first_err[1].message = job[p].outcome
                   /\ first_err[1].input_path = JobFile(p)
                   /\ first_err[1].output_path = p
                   /\ first_err[1].stdout = CapturedStdout(p)
                   /\ first_err[1].stderr = CapturedStderr(p)

\* Jobs of two files failed in the same run, after being waited on.
C13_Witness ==
    /\ phase = "finished"
    /\ IsErr(first_err)
    /\ \E p, q \in Paths :
           /\ JobFile(p) # JobFile(q)
           /\ job[p].st = "waited" /\ Failed(job[p])
           /\ job[q].st = "waited" /\ Failed(job[q])

\* C14 (as claimed): the progress total is the number of jobs executed, and
\* when the run has ended with every emitted job at a terminal outcome the
\* progress position equals the total.
C14_ProgressTotalIsJobsExecuted ==
    (phase = "finished" /\ ~IsSome(fatal)
         /\ \A p \in Paths : job[p].st # "spawned") =>
        /\ task_count = Cardinality({p \in Paths : Emitted(job[p])})
        /\ progress_pos = task_count

\* C15 (as claimed): the failure of a process that was waited on and exited
\* non-zero carries that exit status; the field is none only when no exit
\* status was obtained.
C15_ExitStatusCarried ==
    \A p \in Paths :
        LET r == result[JobFile(p)]
        IN  (IsErr(r) /\ r[1].output_path = p) =>
                /\ (job[p].st = "waited" /\ job[p].exit = Some(1)) =>
                       r[1].exit_code = job[p].exit
                /\ ~IsSome(r[1].exit_code) => job[p].st \in {"spawnfail", "waitfail"}

\* C17: a run that ends with a configuration, binary or discovery error has
\* spawned no export process and ends with a non-zero exit status.
C17_FatalBeforeAnyJob ==
    IsSome(fatal) =>
        /\ \A p \in Paths : job[p].st = "none"
        /\ \A f \in Files : handles[f] = <<>> /\ fpc[f] = "todo"
        /\ progress_pos = 0
        /\ exit_code = Some(1)

\* The second file could not be read, after the first was discovered, in a
\* run that had stale outputs to build.
C17_Witness ==
    /\ fatal = Some(<<"read file", 1>>)
    /\ phase = "finished"
    /\ \E f \in Files : \E i \in Steps(f) : ~OutputFresh(f, i)

\* C20 (as claimed): the progress position never exceeds the progress total.
C20_PositionAtMostTotal == progress_pos <= task_count

\* C18: any two distinct jobs of a run, of different files or of different
\* steps of one file, have different output file names.
C18_DistinctOutputPaths ==
    \A a, b \in 1..Len(named) :
        named[a].name = named[b].name =>
            named[a].file = named[b].file /\ named[a].idx = named[b].idx

\* Two jobs of files whose stems are 1 and 11, at the steps 11 and 1.
C18_Witness ==
    /\ Len(named) = 2
    /\ file_stems[named[1].file] = <<"1">> /\ named[1].idx = 11
    /\ file_stems[named[2].file] = <<"1", "1">> /\ named[2].idx = 1

\* C19 (as claimed): in draft mode the argument after the first scale flag
\* becomes 1 and nothing else changes; a list without scale flag is
\* unchanged; a list whose first scale flag is its last element stops the
\* run with the error Scale flag does not have argument.
C19_DraftRewritesScale ==
    (draft /\ draft_outcome # "pending") =>
        LET scale == {k \in 1..Len(build_args) :
                         build_args[k] \in {<<"-s">>, <<"--scale">>}}
            first == CHOOSE k \in scale : \A j \in scale : k <= j
        IN  IF scale = {}
            THEN draft_outcome = "ok" /\ drawio_flags = build_args
            ELSE IF first = Len(build_args)
            THEN /\ draft_outcome = "Scale flag does not have argument"
                 /\ drawio_flags = build_args
            ELSE /\ draft_outcome = "ok"
                 /\ drawio_flags = [build_args EXCEPT ![first + 1] = <<"1">>]

\* C19, the part that holds: a list whose first scale flag has an argument
\* gets exactly this argument replaced by 1, and a list without scale flag
\* is left as it is.
C19_ScaleWithArgument ==
    (draft /\ draft_outcome # "pending") =>
        LET scale == {k \in 1..Len(build_args) :
                         build_args[k] \in {<<"-s">>, <<"--scale">>}}
            first == CHOOSE k \in scale : \A j \in scale : k <= j
        IN  IF scale = {}
            THEN draft_outcome = "ok" /\ drawio_flags = build_args
            ELSE first < Len(build_args) =>
                     /\ draft_outcome = "ok"
                     /\ drawio_flags = [build_args EXCEPT ![first + 1] = <<"1">>]

\* C21 (as claimed): after a run, drawio-builder-errors.log is present in
\* the output directory only if a job of this run failed; a run that ends
\* in success leaves no error log behind, whatever earlier runs did.
C21_ErrorLogOnlyAfterFailedRun ==
    phase = "finished" =>
        /\ log_exists => \E p \in Paths : Failed(job[p])
        /\ exit_code = Some(0) => ~log_exists

\* C21, the success case alone: a run that ended with exit status zero has
\* no error log in its output directory.
C21_NoLogAfterSuccess ==
    (phase = "finished" /\ exit_code = Some(0)) => ~log_exists

====
